---- MODULE Spec2Model ----
(***************************************************************************)
(* Model of the dispatch / effect-queue engine and the render scheduler of *)
(* src/src/app.rs (App::update, App::sink, App::process_cmd_and_msg_queue, *)
(* App::process_queue_message, App::schedule_render, App::rerender_vdom,   *)
(* App::run).                                                              *)
(*                                                                         *)
(* The program is single threaded.  The Rust call stack is the variable    *)
(* `stack`; host events (frame callbacks, resolved futures, user events)   *)
(* only start when the stack is empty.  User supplied functions (update,   *)
(* sink, view, window_events, routes, listeners, post-render callbacks,    *)
(* the after-mount hook) are arbitrary code that holds a clone of the App: *)
(* what they ask for is chosen with \E from small sets, and while one of   *)
(* them runs it may call every public function of the App.  The            *)
(* demonstration Model is a counter that every update / sink call          *)
(* increments.                                                             *)
(***************************************************************************)
EXTENDS Integers, Sequences, FiniteSets, TLC

\* ------------------------------------------------------------------ bounds
\* Messages, commands and post-render callbacks the application may create.
MaxMsgs == 3
\* The same for the programs that are checked under every configuration,
\* with the listener calls recorded, or with the host's scheduling.
MaxMsgsWide == 2
\* For the program checked for its nested drains: what the after-mount hook
\* and routes may create, and what may be created otherwise.
MaxStartup == 3
MaxLater == 1
\* Largest value the host clock (performance.now()) reaches.
MaxClock == 1
\* Largest number of message listeners registered.
MaxListeners == 2
\* Largest number of setup_window_listeners calls made by user code that
\* are on the stack together (a window_events function may call it again).
MaxSetups == 1
\* Largest number of children the mount point has before the app starts.
MaxChildren == 3

VARIABLES
    init_cfg,                     \* App.init_cfg: TRUE while Some
    cfg,                          \* AppCfg: which optional functions are set
    model,                        \* AppData.model: Option<Mdl>
    main_el_vdom,                 \* AppData.main_el_vdom: Option<El>
    msg_listeners,                \* AppData.msg_listeners: number registered
    scheduled_render_handle,      \* AppData.scheduled_render_handle
    after_next_render_callbacks,  \* AppData.after_next_render_callbacks
    render_timestamp,             \* AppData.render_timestamp
    mount_point,                  \* AppCfg.mount_point: its live child nodes
    host,                         \* the host: frame requests, clock, tasks
    stack,                        \* the call stack of the single UI thread
    panicked,                     \* "no", or the panic that aborted the program
    hist                          \* observations of the run (history only)

vars == << init_cfg, cfg, model, main_el_vdom, msg_listeners,
           scheduled_render_handle, after_next_render_callbacks,
           render_timestamp, mount_point, host, stack, panicked, hist >>

\* ------------------------------------------------------------- Option<T>
None == << >>
Some(x) == << x >>
IsSome(o) == o # << >>
Unwrap(o) == o[1]

\* ------------------------------------------------------------ ShouldRender
ShouldRender == { "Render", "ForceRenderNow", "Skip" }

\* OrdersContainer::new: the directive an Orders starts with.
DefaultShouldRender == "Render"

\* ----------------------------------------------------------------- Effect
\* src tells where a message came from; it does not influence the runtime.
\* delta is the Option<RenderTimestampDelta> a post-render callback was given.
\* n numbers the effects in the order they were created (0: not recorded).
Effect(t, src, delta) == [ t |-> t, src |-> src, delta |-> delta, n |-> 0 ]
Msg(src) == Effect("Msg", src, None)
GMsg(src) == Effect("GMsg", src, None)
Cmd == Effect("Cmd", "effect", None)
GCmd == Effect("GCmd", "effect", None)

EffectOf(k) ==
    CASE k = "Msg" -> Msg("effect")
      [] k = "GMsg" -> GMsg("effect")
      [] k = "Cmd" -> Cmd
      [] k = "GCmd" -> GCmd

\* The effect lists an update / sink call may leave in orders.effects.
EffectChoices ==
    { << >>, << "Msg" >>, << "GMsg" >>, << "Cmd" >>, << "GCmd" >>,
      << "Cmd", "Msg" >> }

\* The numbers of post-render callbacks such a call may register.
CallbackChoices == { 0, 1, 2 }

MkEffects(ks) == [ i \in 1 .. Len(ks) |-> EffectOf(ks[i]) ]

\* ------------------------------------------------------------ stack frames
\* kind tells which function the frame is and where it stands:
\*   "drain"    process_cmd_and_msg_queue; queue is its VecDeque
\*   "pqm"      process_queue_message(queue[1]); li is the listener its loop
\*              is at, past the last one the update function is to run
\*   "lis"      the same, inside listener li, which has called into the App
\*   "pqgm"     process_queue_global_message(queue[1])
\*   "upd"      process_queue_message / process_queue_global_message inside
\*              the update / sink function, which has called into the App
\*   "pq_wev"   the same inside window_events (setup_window_listeners), the
\*              update / sink function having returned; d is the directive
\*              it left and queue its orders.effects
\*   "ret"      the same after ForceRenderNow, while rerender_vdom runs;
\*              queue is orders.effects, seq the number of renders that
\*              had been performed when it called rerender_vdom
\*   "view"     rerender_vdom inside the view function; t is the timestamp
\*              it has read
\*   "cbs"      rerender_vdom calling its callbacks; rest are the callbacks
\*              that have not returned, queue the messages collected, delta
\*              the timestamp_delta each callback is given
\*   "swl"      setup_window_listeners, called by user code or the host,
\*              inside window_events
\*   "hook"     run() inside the after-mount hook
\*   "routes"   run() inside routes(url); queue is orders.effects
\*   "run_wev"  run() inside window_events; queue is orders.effects
\*   "run"      run() while its startup drain runs
\*   "run_ret"  run() while its final render runs; seq as for "ret"
\*   "call"     a callee that returns in the step that calls it
Frame(kind, queue, li, seq) ==
    [ kind |-> kind, queue |-> queue, li |-> li, seq |-> seq,
      rest |-> << >>, delta |-> << >>, d |-> "-", t |-> 0 ]
DrainFrame(queue) == Frame("drain", queue, 0, 0)

\* ------------------------------------------------- the state as one record
St ==
    [ init_cfg |-> init_cfg, cfg |-> cfg, model |-> model,
      main_el_vdom |-> main_el_vdom, msg_listeners |-> msg_listeners,
      scheduled_render_handle |-> scheduled_render_handle,
      after_next_render_callbacks |-> after_next_render_callbacks,
      render_timestamp |-> render_timestamp, mount_point |-> mount_point,
      host |-> host,
      stack |-> stack, panicked |-> panicked, hist |-> hist ]

Becomes(s) ==
    /\ init_cfg' = s.init_cfg
    /\ cfg' = s.cfg
    /\ model' = s.model
    /\ main_el_vdom' = s.main_el_vdom
    /\ msg_listeners' = s.msg_listeners
    /\ scheduled_render_handle' = s.scheduled_render_handle
    /\ after_next_render_callbacks' = s.after_next_render_callbacks
    /\ render_timestamp' = s.render_timestamp
    /\ mount_point' = s.mount_point
    /\ host' = s.host
    /\ stack' = s.stack
    /\ panicked' = s.panicked
    /\ hist' = s.hist

Top(s) == s.stack[Len(s.stack)]
Push(s, f) == [ s EXCEPT !.stack = Append(@, f) ]
Pop(s) == [ s EXCEPT !.stack = SubSeq(@, 1, Len(@) - 1) ]
ReplaceTop(s, f) == [ s EXCEPT !.stack[Len(s.stack)] = f ]

\* A Rust panic: the wasm instance traps and the program stops.
Panic(s, why) == [ s EXCEPT !.panicked = why, !.stack = << >> ]

\* Whether the optional observation `what` is recorded in this run.
Tracked(s, what) == what \in s.hist.track

\* The effects as they are created in state s: numbered after the ones that
\* exist, in the order of the sequence; Enqueued counts them.
Stamped(s, effects) ==
    IF Tracked(s, "fifo")
    THEN [ i \in 1 .. Len(effects) |->
             [ effects[i] EXCEPT !.n = s.hist.enq + i ] ]
    ELSE effects
Enqueued(s, k) ==
    IF Tracked(s, "fifo") THEN [ s EXCEPT !.hist.enq = @ + k ] ELSE s

\* What the application has created so far: messages, commands and
\* callbacks, those the after-mount hook and routes leave to run()
\* ("startup") apart from the others ("later").  A run creates no more of
\* either, and no more in total, than hist.limit allows.
Spend(s, kind, n) == [ s EXCEPT !.hist.created[kind] = @ + n ]
CanSpend(kind, n) ==
    /\ hist.created[kind] + n <= hist.limit[kind]
    /\ hist.created.startup + hist.created.later + n <= hist.limit.total


\* ---------------------------------------------------------------- history
HistInit ==
    [ track |-> { },        \* the optional observations that are recorded
      limit |-> [ startup |-> 0, later |-> 0, total |-> 0 ],
      created |-> [ startup |-> 0, later |-> 0 ],
      renders |-> 0,        \* renders performed (patch_els calls)
      updCalls |-> 0,       \* calls of the update and sink functions
      popped |-> 0,         \* messages (local and global) taken from a queue
      \* recorded when "obs" is tracked:
      nDispatch |-> 0,      \* local messages that entered process_queue_message
      obs |-> << >>,        \* per listener: dispatch numbers it was called with
      regAt |-> << >>,      \* per listener: nDispatch when it was registered
      \* recorded when "fifo" is tracked:
      enq |-> 0,            \* effects created (they are numbered 1 .. enq)
      taken |-> << >>,      \* numbers of the effects popped, in pop order
      nextCb |-> 1,         \* registration number of the next callback
      invoked |-> << >>,    \* callbacks in the order they returned
      cmdRuns |-> << >>,    \* per command: how its result was dispatched
      \* since the host last called a frame callback (or run() returned):
      \* update / sink calls that asked for Render, whether one asked for
      \* ForceRenderNow, renders other than that frame callback's own
      iv |-> [ upd |-> 0, force |-> FALSE, renders |-> 0 ] ]

\* ------------------------------------------------------------- Scheduler
\* Dropping a RequestAnimationFrameHandle cancels its request with the host.
DropHandle(s, h) ==
    IF IsSome(h)
    THEN [ s EXCEPT !.host.frames = @ \ { Unwrap(h) } ]
    ELSE s

\* The id request_animation_frame returns: one that names no live request.
\* (Ids are opaque to the program; the smallest free one is taken.)
FreshRequest(s) ==
    CHOOSE r \in 1 .. Cardinality(s.host.frames) + 2 :
        /\ r \notin s.host.frames
        /\ s.scheduled_render_handle # Some(r)
        /\ \A q \in 1 .. r - 1 :
              q \in s.host.frames \/ s.scheduled_render_handle = Some(q)

\* Mutant: the is_none() guard is missing and the old request stays live.
schedule_render_unguarded(s) ==
    [ s EXCEPT !.scheduled_render_handle = Some(FreshRequest(s)),
               !.host.frames = @ \cup { FreshRequest(s) } ]

schedule_render(s) ==
    IF ~IsSome(s.scheduled_render_handle)
    THEN [ s EXCEPT !.scheduled_render_handle = Some(FreshRequest(s)),
                    !.host.frames = @ \cup { FreshRequest(s) } ]
    ELSE s

\* Mutant: the handle is left where it is.
cancel_scheduled_render_noop(s) == s

\* Mutant: cancelling the frame also forgets the callbacks that wait for it.
cancel_scheduled_render_drops_callbacks(s) ==
    [ DropHandle(s, s.scheduled_render_handle)
        EXCEPT !.scheduled_render_handle = None,
               !.after_next_render_callbacks = << >> ]

cancel_scheduled_render(s) ==
    [ DropHandle(s, s.scheduled_render_handle)
        EXCEPT !.scheduled_render_handle = None ]

\* --------------------------------------------------------------- Renderer
\* The tree the view function returns for Model m: it shows the counter.
View(m) == << m >>

\* Effect::Msg(callback(timestamp_delta)): the message of one callback.
CallbackMsg(timestamp_delta) == Effect("Msg", "cb", timestamp_delta)

\* The iterator over the callbacks taken out of the RefCell, which collect()
\* runs before process_cmd_and_msg_queue is called: with no callback the
\* drain of the empty queue starts at once.
CallbackLoop(cbs, timestamp_delta) ==
    IF cbs = << >> THEN DrainFrame(<< >>)
    ELSE [ Frame("cbs", << >>, 0, 0)
             EXCEPT !.rest = cbs, !.delta = timestamp_delta ]

\* RefCell<Option<Mdl>>: the Model is mutably borrowed while an update or
\* sink function of a caller is running ("upd" frames; the top frame is the
\* function that asks), and borrowed while a view or window_events function
\* of a caller is running.
ModelBorrowedMut(s) ==
    \E k \in 1 .. Len(s.stack) - 1 : s.stack[k].kind = "upd"

ModelBorrowed(s) ==
    \E k \in 1 .. Len(s.stack) - 1 :
        s.stack[k].kind \in { "view", "pq_wev", "run_wev", "swl" }

\* patch::patch_els, the reconciler: it writes the host tree while the old
\* tree is out of its slot.  It changes nothing of the program's state and
\* dispatches no message while it runs (the mailbox it is given serves the
\* listeners it attaches, later).
patch_els(s) == s

\* rerender_vdom with performance.now() returning t, up to its call of the
\* view function on model.borrow().as_ref().unwrap().  The frame of the
\* caller (if any) is on top of s.stack; the frame of rerender_vdom is
\* pushed over it.
rerender_vdom(s, t) ==
    LET s1 == [ s EXCEPT !.host.clock = t ]
    IN  IF ModelBorrowedMut(s1)
        THEN Panic(s1, "already mutably borrowed")
        ELSE IF ~IsSome(s1.model) THEN Panic(s1, "model is None")
        ELSE Push(s1, [ Frame("view", << >>, 0, 0) EXCEPT !.t = t ])

\* Mutant: the callbacks are called but the Vec is not replaced.
rerender_vdom_keeps_callbacks(s) ==
    IF ~IsSome(s.main_el_vdom) THEN Panic(s, "missing main_el_vdom")
    ELSE
      LET new_render_timestamp == Top(s).t
          old_render_timestamp == s.render_timestamp
          timestamp_delta ==
              IF IsSome(old_render_timestamp)
              THEN Some(new_render_timestamp - Unwrap(old_render_timestamp))
              ELSE None
          cbs == s.after_next_render_callbacks
      IN  [ ReplaceTop(patch_els(s), CallbackLoop(cbs, timestamp_delta))
              EXCEPT !.main_el_vdom = Some(View(Unwrap(s.model))),
                     !.render_timestamp = Some(new_render_timestamp),
                     !.hist.renders = @ + 1,
                     !.hist.iv.renders =
                         IF Len(s.stack) > 1 THEN @ + 1 ELSE @ ]

\* Mutant: the new timestamp is stored before the old one is read.
rerender_vdom_stores_first(s) ==
    IF ~IsSome(s.main_el_vdom) THEN Panic(s, "missing main_el_vdom")
    ELSE
      LET new_render_timestamp == Top(s).t
          old_render_timestamp == Some(new_render_timestamp)
          timestamp_delta ==
              IF IsSome(old_render_timestamp)
              THEN Some(new_render_timestamp - Unwrap(old_render_timestamp))
              ELSE None
          cbs == s.after_next_render_callbacks
      IN  [ ReplaceTop(patch_els(s), CallbackLoop(cbs, timestamp_delta))
              EXCEPT !.main_el_vdom = Some(View(Unwrap(s.model))),
                     !.render_timestamp = Some(new_render_timestamp),
                     !.after_next_render_callbacks = << >>,
                     !.hist.renders = @ + 1,
                     !.hist.iv.renders =
                         IF Len(s.stack) > 1 THEN @ + 1 ELSE @ ]

\* Mutant: the old tree is taken and the new one is never stored.
rerender_vdom_takes_baseline(s) ==
    IF ~IsSome(s.main_el_vdom) THEN Panic(s, "missing main_el_vdom")
    ELSE
      LET new_render_timestamp == Top(s).t
          old_render_timestamp == s.render_timestamp
          timestamp_delta ==
              IF IsSome(old_render_timestamp)
              THEN Some(new_render_timestamp - Unwrap(old_render_timestamp))
              ELSE None
          cbs == s.after_next_render_callbacks
      IN  [ ReplaceTop(patch_els(s), CallbackLoop(cbs, timestamp_delta))
              EXCEPT !.main_el_vdom = None,
                     !.render_timestamp = Some(new_render_timestamp),
                     !.after_next_render_callbacks = << >>,
                     !.hist.renders = @ + 1,
                     !.hist.iv.renders =
                         IF Len(s.stack) > 1 THEN @ + 1 ELSE @ ]

\* rerender_vdom from the return of the view function (the frame on top of
\* s.stack) up to the first callback it calls: the old tree is taken and
\* patched, the new tree and timestamp are stored, the callbacks are taken.
\* The tree is the view of the Model, which no one can have changed while
\* the view function held its borrow.
rerender_vdom_after_view(s) ==
    IF ~IsSome(s.main_el_vdom) THEN Panic(s, "missing main_el_vdom")
    ELSE
      LET new_render_timestamp == Top(s).t
          old_render_timestamp == s.render_timestamp
          timestamp_delta ==
              IF IsSome(old_render_timestamp)
              THEN Some(new_render_timestamp - Unwrap(old_render_timestamp))
              ELSE None
          cbs == s.after_next_render_callbacks
      IN  [ ReplaceTop(patch_els(s), CallbackLoop(cbs, timestamp_delta))
              EXCEPT !.main_el_vdom = Some(View(Unwrap(s.model))),
                     !.render_timestamp = Some(new_render_timestamp),
                     !.after_next_render_callbacks = << >>,
                     !.hist.renders = @ + 1,
                     !.hist.iv.renders =
                         IF Len(s.stack) > 1 THEN @ + 1 ELSE @ ]

\* The callback at the head of the loop returns its message, which is
\* collected; after the last one process_cmd_and_msg_queue is called with
\* the messages collected.
callback_returns(s) ==
    LET f == Top(s)
        queue == f.queue \o Stamped(s, << CallbackMsg(f.delta) >>)
        rest == Tail(f.rest)
        s1 == [ Enqueued(s, 1) EXCEPT !.hist.invoked = Append(@, Head(f.rest)) ]
    IN  ReplaceTop(s1, IF rest = << >> THEN DrainFrame(queue)
                       ELSE [ f EXCEPT !.queue = queue, !.rest = rest ])

\* What performance.now() may return: the clock is monotonic.
ClockReads == { t \in host.clock .. host.clock + 1 : t <= MaxClock }


\* ------------------------------------------------------------- user code
Idle == stack = << >> /\ panicked = "no"
Running(kind) == panicked = "no" /\ stack # << >> /\ Top(St).kind = kind

\* RefCell<Vec<listener>>: msg_listeners is borrowed from the first to the
\* last listener of a loop, the calls the listeners make included.
MsgListenersBorrowed(s) ==
    \E k \in 1 .. Len(s.stack) :
       \/ s.stack[k].kind = "lis"
       \/ s.stack[k].kind = "pqm" /\ s.stack[k].li <= s.msg_listeners

\* A listener is being called.
InListener ==
    \/ Running("lis")
    \/ Running("pqm") /\ Top(St).li <= msg_listeners

\* The update or the sink function is running: the Model was there and no
\* caller held it.
InUserFn ==
    /\ \/ Running("pqm") /\ Top(St).li > msg_listeners
       \/ Running("pqgm") /\ cfg.sink
       \/ Running("upd")
    /\ IsSome(model)
    /\ ~ModelBorrowedMut(St)
    /\ ~ModelBorrowed(St)

\* A post-render callback is being called.
InCallback == Running("cbs")

\* The after-mount hook is running.
InHook == Running("hook")

\* The view function is running.
InView == Running("view")

\* The window_events function is running.
InWindowEvents == Running("pq_wev") \/ Running("run_wev") \/ Running("swl")

\* The routes function is running.
InRoutes == Running("routes")

\* Code that holds the App (a clone of it) is running: the host, between two
\* events, or a user function the App has called.
MayCall ==
    \/ Idle
    \/ InListener
    \/ InUserFn
    \/ InCallback
    \/ InHook
    \/ InView
    \/ InWindowEvents
    \/ InRoutes

\* (l)(&message): listener f.li of the loop in the top frame f is called with
\* the message.
Observed(s) ==
    IF Tracked(s, "obs")
    THEN [ s EXCEPT !.hist.obs[Top(s).li] = Append(@, Top(s).seq) ]
    ELSE s

\* The user function on top of the stack calls into the App: a listener that
\* had made no call yet has been called with the message, an update or sink
\* function holds the Model.
Calling(s) ==
    IF s.stack = << >> THEN s
    ELSE LET f == Top(s)
         IN  CASE f.kind = "pqm" /\ f.li <= s.msg_listeners ->
                    ReplaceTop(Observed(s), [ f EXCEPT !.kind = "lis" ])
               [] f.kind = "pqm" /\ f.li > s.msg_listeners ->
                    ReplaceTop(s, [ f EXCEPT !.kind = "upd" ])
               [] f.kind = "pqgm" ->
                    ReplaceTop(s, [ f EXCEPT !.kind = "upd" ])
               [] OTHER -> s

\* The same with the frame of the function that is called on top.
InCall(s) == Push(Calling(s), Frame("call", << >>, 0, 0))

\* ----------------------------------------------------- dispatch entry points
\* update(message): a fresh queue holding the message, drained synchronously.
\* Mutant: a nested call puts its message on the queue of the running drain.
update_shared_queue(s, message) ==
    IF s.stack = << >>
    THEN Push(Enqueued(s, 1), DrainFrame(Stamped(s, << message >>)))
    ELSE [ Enqueued(s, 1) EXCEPT
             !.stack[1].queue = @ \o Stamped(s, << message >>) ]

update(s, message) ==
    Push(Enqueued(s, 1), DrainFrame(Stamped(s, << message >>)))

\* sink(g_msg): the same on the global channel.
sink(s, g_msg) ==
    Push(Enqueued(s, 1), DrainFrame(Stamped(s, << g_msg >>)))

\* process_cmd_and_msg_queue(queue), the public drain: the caller's queue is
\* drained synchronously.
process_cmd_and_msg_queue(s, queue) ==
    Push(Enqueued(s, Len(queue)), DrainFrame(Stamped(s, queue)))

\* A host event (a DOM event through the mailbox, a navigation listener, a
\* caller holding the App) or a user function that is running calls update.
CallUpdate ==
    /\ MayCall
    /\ CanSpend("later", 1)
    /\ Becomes(update(Spend(Calling(St), "later", 1), Msg("user")))

CallSink ==
    /\ MayCall
    /\ CanSpend("later", 1)
    /\ Becomes(sink(Spend(Calling(St), "later", 1), GMsg("user")))

\* The queues a caller of the public process_cmd_and_msg_queue may pass.
HostQueues ==
    { << Msg("user"), GMsg("user") >>,
      << Effect("GCmd", "user", None) >>,
      << Effect("GCmd", "user", None), Msg("user") >> }

\* The same callers call process_cmd_and_msg_queue with a queue of their own.
CallProcessCmdAndMsgQueue ==
    /\ MayCall
    /\ \E queue \in HostQueues :
         /\ CanSpend("later", Len(queue))
         /\ Becomes(process_cmd_and_msg_queue(
                        Spend(Calling(St), "later", Len(queue)),
                        queue))

\* setup_window_listeners: when a window_events function is configured it is
\* called on model.borrow().as_ref().unwrap().  The frame of the function
\* that runs setup_window_listeners is on top of s.stack: it becomes `inside`
\* while window_events runs; without window_events the function goes on at
\* once, to the state `after`.
setup_window_listeners(s, inside, after) ==
    IF ~s.cfg.window_events THEN after
    ELSE IF ModelBorrowedMut(s) THEN Panic(s, "already mutably borrowed")
    ELSE IF ~IsSome(s.model) THEN Panic(s, "model is None")
    ELSE ReplaceTop(s, inside)

\* The same callers call setup_window_listeners.
CallSetupWindowListeners ==
    /\ MayCall
    /\ Cardinality({ k \in 1 .. Len(stack) : stack[k].kind = "swl" })
         < MaxSetups
    /\ LET s == InCall(St)
       IN  Becomes(setup_window_listeners(s, Frame("swl", << >>, 0, 0),
                                          Pop(s)))

\* msg_listeners.borrow_mut().push(listener)
add_message_listener(s) ==
    IF MsgListenersBorrowed(s)
    THEN Panic(s, "msg_listeners already borrowed")
    ELSE [ s EXCEPT
             !.msg_listeners = @ + 1,
             !.hist.obs =
                 IF Tracked(s, "obs") THEN Append(@, << >>) ELSE @,
             !.hist.regAt =
                 IF Tracked(s, "obs") THEN Append(@, s.hist.nDispatch)
                 ELSE @ ]

\* The same callers call add_message_listener.
AddMessageListener ==
    /\ MayCall
    /\ MsgListenersBorrowed(St) \/ msg_listeners < MaxListeners
    /\ Becomes(add_message_listener(Calling(St)))

\* ------------------------------------------------- process_cmd_and_msg_queue
HeadIs(t) ==
    /\ Running("drain")
    /\ Top(St).queue # << >>
    /\ Head(Top(St).queue).t = t

PopFront(s) ==
    LET s1 == IF Tracked(s, "fifo")
              THEN [ s EXCEPT !.hist.taken = Append(@, Head(Top(s).queue).n) ]
              ELSE s
    IN  ReplaceTop(s1, DrainFrame(Tail(Top(s).queue)))

\* Effect::Msg: process_queue_message is entered; its listener loop starts.
DrainMsg ==
    /\ HeadIs("Msg")
    /\ LET n == IF Tracked(St, "obs") THEN hist.nDispatch + 1 ELSE 0
           s1 == [ PopFront(St) EXCEPT !.hist.nDispatch = n ]
       IN  Becomes(Push([ s1 EXCEPT !.hist.popped = @ + 1 ],
                        Frame("pqm", << Head(Top(St).queue) >>, 1, n)))

\* Effect::GMsg: process_queue_global_message is entered.
DrainGMsg ==
    /\ HeadIs("GMsg")
    /\ Becomes(Push([ PopFront(St) EXCEPT !.hist.popped = @ + 1 ],
                    Frame("pqgm", << Head(Top(St).queue) >>, 0, 0)))

\* process_queue_cmd / process_queue_global_cmd: the future is handed to the
\* host behind a NextTick; nothing is appended to the queue.
SpawnCmd(s, global) ==
    LET id == Len(s.hist.cmdRuns) + 1
    IN  [ s EXCEPT !.host.tasks =
                       @ \cup { [ id |-> id, global |-> global,
                                  stage |-> "tick" ] },
                   !.hist.cmdRuns =
                       Append(@, [ global |-> global, runs |-> 0,
                                   via |-> "-" ]) ]

\* Mutant: the command is taken from the queue and never given to the host.
process_queue_cmd_lost(s) ==
    [ s EXCEPT !.hist.cmdRuns =
                   Append(@, [ global |-> FALSE, runs |-> 0,
                               via |-> "-" ]) ]

\* Mutant: the result of the command is dispatched at once, inside the drain.
process_queue_cmd_immediate(s) ==
    update([ s EXCEPT !.hist.cmdRuns =
                          Append(@, [ global |-> FALSE, runs |-> 1,
                                      via |-> "update" ]) ],
           Msg("cmd_ok"))

process_queue_cmd(s) == SpawnCmd(s, FALSE)
process_queue_global_cmd(s) == SpawnCmd(s, TRUE)

DrainCmd ==
    /\ HeadIs("Cmd")
    /\ Becomes(process_queue_cmd(PopFront(St)))

DrainGCmd ==
    /\ HeadIs("GCmd")
    /\ Becomes(process_queue_global_cmd(PopFront(St)))

\* The while loop ends: the queue is empty and the call returns.
DrainReturn ==
    /\ Running("drain")
    /\ Top(St).queue = << >>
    /\ Becomes(Pop(St))

\* ------------------------------------------------------ the host's tasks
\* NextTick resolves: lazy_schedule_cmd spawns the future itself.
TaskNextTick ==
    /\ Idle
    /\ \E task \in host.tasks :
         /\ task.stage = "tick"
         /\ Becomes([ St EXCEPT !.host.tasks =
                          ( @ \ { task } )
                            \cup { [ task EXCEPT !.stage = "spawned" ] } ])

\* The future resolves to Ok(m) or Err(m); either way m is dispatched.
CmdResolved(s, task, ok) ==
    LET src == IF ok THEN "cmd_ok" ELSE "cmd_err"
        s1 == [ s EXCEPT !.host.tasks = @ \ { task },
                         !.hist.cmdRuns[task.id] =
                             [ @ EXCEPT !.runs = @ + 1,
                                        !.via = IF task.global THEN "sink"
                                                ELSE "update" ] ]
    IN  IF task.global THEN sink(s1, GMsg(src)) ELSE update(s1, Msg(src))

TaskResolve ==
    /\ Idle
    /\ \E task \in host.tasks, ok \in BOOLEAN :
         /\ task.stage = "spawned"
         /\ Becomes(CmdResolved(St, task, ok))


\* ------------------------------------------------------ process_queue_message
\* (l)(&message) for a listener that returns without calling into the App.
CallListener(s) ==
    ReplaceTop(Observed(s), [ Top(s) EXCEPT !.li = @ + 1 ])

\* for l in msg_listeners: (l)(&message) -- the listener returns at once ...
ListenerObserves ==
    /\ Running("pqm")
    /\ Top(St).li <= msg_listeners
    /\ Becomes(CallListener(St))

\* ... or after the calls into the App it has made (CallUpdate, CallSink and
\* the other callers' actions, taken while it runs).
ListenerReturns ==
    /\ Running("lis")
    /\ Becomes(ReplaceTop(St, [ Top(St) EXCEPT !.kind = "pqm", !.li = @ + 1 ]))

\* Orders::after_next_render: n callbacks pushed on the shared Vec.
RegisterCallbacks(s, n) ==
    [ s EXCEPT !.after_next_render_callbacks =
                   @ \o [ i \in 1 .. n |-> s.hist.nextCb + i - 1 ],
               !.hist.nextCb = @ + n ]

\* The update (or sink) function runs on &mut Model with a fresh Orders: it
\* increments the counter, leaves effects ks and registers ncb callbacks.
UserFn(s, ks, ncb) ==
    [ RegisterCallbacks(Enqueued(Spend(s, "later", Len(ks) + ncb), Len(ks)),
                        ncb)
        EXCEPT !.model = Some(Unwrap(s.model) + 1),
               !.hist.updCalls = @ + 1 ]

\* Mutant: the new effects go to the front of the queue (depth first).
ReturnEffects_AtFront(s, effects) ==
    LET s1 == Pop(s)
    IN  ReplaceTop(s1, DrainFrame(effects \o Top(s1).queue))

\* process_queue_* returns orders.effects; the drain appends them.
ReturnEffects(s, effects) ==
    LET s1 == Pop(s)
    IN  ReplaceTop(s1, DrainFrame(Top(s1).queue \o effects))

\* Mutant: Render renders at once instead of scheduling.
ApplyShouldRender_RenderNow(s, d, effects, t) ==
    CASE d \in { "Render", "ForceRenderNow" } ->
           rerender_vdom(
               ReplaceTop([ cancel_scheduled_render(s)
                              EXCEPT !.hist.iv.upd =
                                         IF d = "Render" THEN @ + 1 ELSE @,
                                     !.hist.iv.force =
                                         IF d = "Render" THEN @ ELSE TRUE ],
                          Frame("ret", effects, 0, s.hist.renders)), t)
      [] d = "Skip" -> ReturnEffects(s, effects)

\* Mutant: Skip schedules a render like Render does.
ApplyShouldRender_SkipSchedules(s, d, effects, t) ==
    CASE d = "Render" ->
           ReturnEffects([ schedule_render(s)
                             EXCEPT !.hist.iv.upd = @ + 1 ], effects)
      [] d = "ForceRenderNow" ->
           rerender_vdom(
               ReplaceTop([ cancel_scheduled_render(s)
                              EXCEPT !.hist.iv.force = TRUE ],
                          Frame("ret", effects, 0, s.hist.renders)), t)
      [] d = "Skip" -> ReturnEffects(schedule_render(s), effects)

\* Mutant: ForceRenderNow hands its effects to the caller's queue before it
\* renders.
ApplyShouldRender_EffectsFirst(s, d, effects, t) ==
    CASE d = "Render" ->
           ReturnEffects([ schedule_render(s)
                             EXCEPT !.hist.iv.upd = @ + 1 ], effects)
      [] d = "ForceRenderNow" ->
           LET s1 == [ cancel_scheduled_render(s)
                         EXCEPT !.hist.iv.force = TRUE,
                                !.stack[Len(s.stack) - 1].queue = @ \o effects ]
           IN  rerender_vdom(
                   ReplaceTop(s1, Frame("ret", << >>, 0, s.hist.renders)), t)
      [] d = "Skip" -> ReturnEffects(s, effects)

\* match orders.should_render { ... }; orders.effects -- with
\* performance.now() returning t if rerender_vdom is called.
ApplyShouldRender(s, d, effects, t) ==
    CASE d = "Render" ->
           ReturnEffects([ schedule_render(s)
                             EXCEPT !.hist.iv.upd = @ + 1 ], effects)
      [] d = "ForceRenderNow" ->
           rerender_vdom(
               ReplaceTop([ cancel_scheduled_render(s)
                              EXCEPT !.hist.iv.force = TRUE ],
                          Frame("ret", effects, 0, s.hist.renders)), t)
      [] d = "Skip" -> ReturnEffects(s, effects)

\* process_queue_* from the return of the update / sink function, which left
\* directive d and the effects: self.setup_window_listeners(), then the
\* directive is applied.
AfterUserFn(s, d, effects, t) ==
    setup_window_listeners(s,
        [ Frame("pq_wev", effects, 0, 0) EXCEPT !.d = d ],
        ApplyShouldRender(s, d, effects, t))

\* process_queue_message from the end of its listener loop: the update
\* function is called on model.borrow_mut().as_mut().unwrap().
process_queue_message(s, d, ks, ncb, t) ==
    IF ModelBorrowedMut(s) \/ ModelBorrowed(s)
    THEN Panic(s, "already borrowed")
    ELSE IF ~IsSome(s.model) THEN Panic(s, "model is None")
    ELSE AfterUserFn(UserFn(s, ks, ncb), d, Stamped(s, MkEffects(ks)), t)

\* process_queue_global_message: the sink function, if there is one, is
\* called the same way; without one the Orders stays as it was made.
process_queue_global_message(s, d, ks, ncb, t) ==
    IF s.cfg.sink
    THEN IF ModelBorrowedMut(s) \/ ModelBorrowed(s)
         THEN Panic(s, "already borrowed")
         ELSE IF ~IsSome(s.model) THEN Panic(s, "model is None")
         ELSE AfterUserFn(UserFn(s, ks, ncb), d, Stamped(s, MkEffects(ks)), t)
    ELSE AfterUserFn(s, DefaultShouldRender, << >>, t)

\* What an update / sink call that asks for directive d may leave in its
\* Orders; only a ForceRenderNow reads the clock (in rerender_vdom).
Orders(d) ==
    { o \in [ ks : EffectChoices, ncb : CallbackChoices,
              t : IF d = "ForceRenderNow" THEN ClockReads
                  ELSE { host.clock } ] :
        CanSpend("later", Len(o.ks) + o.ncb) }

\* The listener loop is over: the update function runs and asks for d.
ProcessQueueMessageWith(d) ==
    /\ Running("pqm")
    /\ Top(St).li > msg_listeners
    /\ \E o \in Orders(d) :
         Becomes(process_queue_message(St, d, o.ks, o.ncb, o.t))

ProcessQueueMessage == \E d \in ShouldRender : ProcessQueueMessageWith(d)

\* Without a sink function the Orders stays as OrdersContainer::new made it.
ProcessQueueGlobalMessageWith(d) ==
    /\ Running("pqgm")
    /\ \E o \in Orders(d) :
         /\ ( ~cfg.sink =>
                /\ d = DefaultShouldRender
                /\ o.ks = << >>
                /\ o.ncb = 0 )
         /\ Becomes(process_queue_global_message(St, d, o.ks, o.ncb, o.t))

ProcessQueueGlobalMessage ==
    \E d \in ShouldRender : ProcessQueueGlobalMessageWith(d)

\* The update (or sink) function returns after the calls into the App it has
\* made and asks for d.
UserFnReturnsWith(d) ==
    /\ Running("upd")
    /\ \E o \in Orders(d) :
         Becomes(IF Top(St).queue[1].t = "GMsg"
                 THEN process_queue_global_message(St, d, o.ks, o.ncb, o.t)
                 ELSE process_queue_message(St, d, o.ks, o.ncb, o.t))

UserFnReturns == \E d \in ShouldRender : UserFnReturnsWith(d)

\* The window_events function returns: process_queue_* applies the directive
\* the update / sink function left, run() goes on to its startup drain, a
\* setup_window_listeners called from outside returns.
window_events_returns(s, t) ==
    LET f == Top(s)
    IN  CASE f.kind = "pq_wev" -> ApplyShouldRender(s, f.d, f.queue, t)
          [] f.kind = "run_wev" ->
               Push(ReplaceTop(s, Frame("run", << >>, 0, 0)),
                    DrainFrame(f.queue))
          [] f.kind = "swl" -> Pop(s)

WindowEventsReturns ==
    /\ InWindowEvents
    /\ \E t \in ( IF Top(St).d = "ForceRenderNow" THEN ClockReads
                  ELSE { host.clock } ) :
         Becomes(window_events_returns(St, t))

\* After ForceRenderNow's rerender_vdom returned: orders.effects is returned.
ReturnAfterRender ==
    /\ Running("ret")
    /\ Becomes(ReturnEffects(St, Top(St).queue))

\* The view function returns its tree.
ViewReturns ==
    /\ Running("view")
    /\ Becomes(rerender_vdom_after_view(St))

\* A post-render callback returns its message.
CallbackReturns ==
    /\ Running("cbs")
    /\ Becomes(callback_returns(St))

\* ------------------------------------------------------ the frame callback
\* Mutant: the closure renders without taking the handle.
frame_callback_keeps_handle(s, r, t) ==
    LET s1 == [ s EXCEPT !.host.frames = @ \ { r },
                         !.hist.iv =
                             [ upd |-> 0, force |-> FALSE, renders |-> 0 ] ]
    IN  rerender_vdom(s1, t)

\* The closure of schedule_render, called by the host for request r: the
\* handle is taken, then rerender_vdom is called.
frame_callback(s, r, t) ==
    LET s1 == [ s EXCEPT !.host.frames = @ \ { r },
                         !.hist.iv =
                             [ upd |-> 0, force |-> FALSE, renders |-> 0 ] ]
        s2 == [ DropHandle(s1, s1.scheduled_render_handle)
                  EXCEPT !.scheduled_render_handle = None ]
    IN  rerender_vdom(s2, t)

FrameCallback ==
    /\ Idle
    /\ \E r \in host.frames, t \in ClockReads :
         Becomes(frame_callback(St, r, t))

\* -------------------------------------------------------------------- run
\* A host node that is a child of the mount point: an element, a text node,
\* or a text node of white space only.  id is the identity of the host node:
\* the children the mount point has before the app starts are nodes 1 .. n.
NodeKinds == { "el", "text", "ws" }
DomNode(id, kind) == [ id |-> id, kind |-> kind ]

\* The child lists a mount point may have before the app starts.
DomChildren ==
    UNION { { [ i \in 1 .. n |-> DomNode(i, kinds[i]) ] :
                kinds \in [ 1 .. n -> NodeKinds ] } : n \in 0 .. MaxChildren }

\* A node of the declarative tree: Node::Element, Node::Text or Node::Empty.
\* `of` is the child of the mount point it was read from, node_ws the host
\* node it is bound to, if any.
Node(kind, of, node_ws) == [ kind |-> kind, of |-> of, node_ws |-> node_ws ]

\* (&mount_point).into(): the children are read, in document order, into
\* nodes of the declarative tree, each bound to the host node it was read
\* from; text nodes of white space only are discarded.
FromDom(children) ==
    LET read == SelectSeq(children, LAMBDA c : c.kind # "ws")
    IN  [ i \in 1 .. Len(read) |->
            Node(IF read[i].kind = "el" THEN "Element" ELSE "Text",
                 read[i], Some(read[i].id)) ]

\* strip_ws_nodes_from_self_and_children: "strip the workspace so that we can
\* recreate it later" -- every node lets go of its host node; no node of the
\* tree is removed.
strip_ws_nodes(nodes) ==
    [ i \in 1 .. Len(nodes) |-> [ nodes[i] EXCEPT !.node_ws = None ] ]

\* assign_ws_nodes_to_el: "recreate the needed nodes" -- a host node is
\* created for every element and text node of the tree, which is bound to
\* it.  The new nodes are in no document yet; `live` is the number of host
\* nodes that exist, so the new ones are live + 1, live + 2, ...
assign_ws_nodes_to_el(nodes, live) ==
    [ i \in 1 .. Len(nodes) |->
        IF nodes[i].kind = "Empty" THEN nodes[i]
        ELSE [ nodes[i] EXCEPT !.node_ws = Some(live + i) ] ]

\* Mutant: the tree keeps the host nodes it was read from; none is stripped
\* and none created.
bootstrap_vdom_keeps_ws(mount_type, children) ==
    IF mount_type = "Takeover" THEN FromDom(children) ELSE << >>

\* bootstrap_vdom: the children of the placeholder root it returns.
bootstrap_vdom(mount_type, children) ==
    IF mount_type = "Takeover"
    THEN assign_ws_nodes_to_el(strip_ws_nodes(FromDom(children)),
                               Len(children))
    ELSE << >>

\* while let Some(child) = mount_point.first_child(): every child is removed.
RemoveChildren(children) == << >>

\* The for loop over new.children: the host node of every Node::Element and
\* Node::Text is appended to the mount point, in order; Node::Empty is
\* passed over.
AttachChildren(nodes) ==
    LET attached == SelectSeq(nodes,
                              LAMBDA n : n.kind \in { "Element", "Text" })
    IN  [ i \in 1 .. Len(attached) |->
            DomNode(Unwrap(attached[i].node_ws), attached[i].of.kind) ]

\* Mutant: the mount point is emptied and refilled whatever the mount type.
bootstrap_mount_point_always(mount_type, children) ==
    RemoveChildren(children)
      \o AttachChildren(bootstrap_vdom(mount_type, children))

\* bootstrap_vdom: the children of the mount point when it returns.  Takeover
\* removes every old child and attaches the nodes of the new tree.
bootstrap_mount_point(mount_type, children) ==
    IF mount_type = "Takeover"
    THEN RemoveChildren(children)
           \o AttachChildren(bootstrap_vdom(mount_type, children))
    ELSE children

\* The mount point of the apps of Spec has no children when the app starts.
MountPointChildren == << >>

MountType == { "Append", "Takeover" }

\* UrlHandling, which the after-mount hook returns with the Model.
UrlHandling == { "PassToRoutes", "None" }

\* run() up to its call of the after-mount hook: init_cfg is taken and the
\* tree is bootstrapped; the Model is not stored yet.
run_enter(s, mount_type) ==
    IF ~s.init_cfg
    THEN Panic(s, "init_cfg should be set")
    ELSE Push([ s EXCEPT !.init_cfg = FALSE,
                         !.main_el_vdom =
                             Some(bootstrap_vdom(mount_type, s.mount_point)),
                         !.mount_point =
                             bootstrap_mount_point(mount_type,
                                                   s.mount_point) ],
              Frame("hook", << >>, 0, 0))

\* run() from self.setup_window_listeners() to its call of
\* process_cmd_and_msg_queue(orders.effects).
run_listeners(s, effects) ==
    setup_window_listeners(s,
        Frame("run_wev", effects, 0, 0),
        Push(ReplaceTop(s, Frame("run", << >>, 0, 0)), DrainFrame(effects)))

\* run() from the return of the hook, which has left effects ks, registered
\* ncb callbacks and returned the Model with url_handling: the Model is
\* stored, and with PassToRoutes the routes function, if there is one, is
\* called.
run_after_mount(s, ks, ncb, url_handling) ==
    LET s1 == [ RegisterCallbacks(s, ncb) EXCEPT !.model = Some(0) ]
        effects == Stamped(s, MkEffects(ks))
        s2 == Enqueued(Spend(s1, "startup", Len(ks) + ncb), Len(ks))
    IN  IF url_handling = "PassToRoutes" /\ s.cfg.routes
        THEN ReplaceTop(s2, Frame("routes", effects, 0, 0))
        ELSE run_listeners(s2, effects)

\* run() from the return of routes(url): the routing message, if one is
\* returned, is pushed at the back of orders.effects.
run_after_routes(s, route) ==
    IF route
    THEN run_listeners(Enqueued(Spend(s, "startup", 1), 1),
                       Top(s).queue \o Stamped(s, << Msg("route") >>))
    ELSE run_listeners(s, Top(s).queue)

\* Clone for App: init_cfg of the clone is None, cfg and data are shared.
Clone(s) == [ s EXCEPT !.init_cfg = FALSE ]

\* run() called on a clone of the App: init_cfg.take() finds None and the
\* expect panics, before a mount type is read or anything is bootstrapped.
\* The init_cfg of the App that was built stays as it is.
run_on_clone(s) ==
    LET c == Clone(s)
    IN  [ ( IF ~c.init_cfg THEN Panic(c, "init_cfg should be set") ELSE c )
            EXCEPT !.init_cfg = s.init_cfg ]

\* run() is called on the App that was built, by the host or by a message
\* listener that was given it (no other user function runs before run() has
\* taken init_cfg); it runs up to its call of the after-mount hook.
RunWith(mount_type) ==
    /\ Idle \/ InListener
    /\ Becomes(run_enter(Calling(St), mount_type))

Run == \E mount_type \in MountType : RunWith(mount_type)

\* The after-mount hook returns, after the calls into the App it has made.
HookReturns ==
    /\ Running("hook")
    /\ \E ks \in EffectChoices, ncb \in CallbackChoices,
          url_handling \in UrlHandling :
         /\ CanSpend("startup", Len(ks) + ncb)
         /\ Becomes(run_after_mount(St, ks, ncb, url_handling))

\* The routes function returns, after the calls into the App it has made.
RoutesReturns ==
    /\ Running("routes")
    /\ \E route \in BOOLEAN :
         /\ route => CanSpend("startup", 1)
         /\ Becomes(run_after_routes(St, route))

\* Code that holds a clone of the App calls run() on it.
CallRunOnClone ==
    /\ MayCall
    /\ Becomes(run_on_clone(Calling(St)))

\* Mutant: the final render is left out when the startup drain rendered or
\* scheduled a render.
RunRender_UnlessRendered ==
    /\ Running("run")
    /\ IF hist.iv.renders > 0 \/ IsSome(scheduled_render_handle)
       THEN Becomes(ReplaceTop(St, Frame("run_ret", << >>, 0, hist.renders)))
       ELSE \E t \in ClockReads :
              Becomes(rerender_vdom(
                  ReplaceTop(St, Frame("run_ret", << >>, 0, hist.renders)),
                  t))

\* The unconditional self.rerender_vdom() that ends run().
RunRender ==
    /\ Running("run")
    /\ \E t \in ClockReads :
         Becomes(rerender_vdom(
             ReplaceTop(St, Frame("run_ret", << >>, 0, hist.renders)), t))

RunReturn ==
    /\ Running("run_ret")
    /\ Becomes([ Pop(St) EXCEPT
                   !.hist.iv = [ upd |-> 0, force |-> FALSE, renders |-> 0 ] ])

\* ------------------------------------------------------------ specification
\* App::new: every RefCell of AppData starts empty.  cfgs are the
\* configurations the builder may have produced, clock is the time of the
\* host when the app is built.
InitFrom(cfgs, track, children, limit, clock) ==
    /\ init_cfg = TRUE
    /\ cfg \in cfgs
    /\ model = None
    /\ main_el_vdom = None
    /\ msg_listeners = 0
    /\ scheduled_render_handle = None
    /\ after_next_render_callbacks = << >>
    /\ render_timestamp = None
    /\ mount_point \in children
    /\ host = [ frames |-> { }, clock |-> clock, tasks |-> { } ]
    /\ stack = << >>
    /\ panicked = "no"
    /\ hist = [ HistInit EXCEPT !.track = track, !.limit = limit ]

\* An app built with a sink and a routes function and no window_events
\* function.
DefaultCfg ==
    [ sink : { TRUE }, window_events : { FALSE }, routes : { TRUE } ]

\* The application creates at most n things, at startup or later.
Shared(n) == [ startup |-> n, later |-> n, total |-> n ]

InitWith(cfgs, track, limit) ==
    InitFrom(cfgs, track, { MountPointChildren }, limit, 0)

\* The same with the clock of the host at the end of its range: every render
\* reads the same time.
InitLate(cfgs, track, limit) ==
    InitFrom(cfgs, track, { MountPointChildren }, limit, MaxClock)


Init == InitWith(DefaultCfg, { }, Shared(MaxMsgs))

\* Every step of an app that has no window_events function.
Next ==
    \/ CallUpdate
    \/ CallSink
    \/ CallProcessCmdAndMsgQueue
    \/ CallSetupWindowListeners
    \/ CallRunOnClone
    \/ AddMessageListener
    \/ DrainMsg
    \/ DrainGMsg
    \/ DrainCmd
    \/ DrainGCmd
    \/ DrainReturn
    \/ TaskNextTick
    \/ TaskResolve
    \/ ListenerObserves
    \/ ListenerReturns
    \/ ProcessQueueMessage
    \/ ProcessQueueGlobalMessage
    \/ UserFnReturns
    \/ ReturnAfterRender
    \/ ViewReturns
    \/ CallbackReturns
    \/ FrameCallback
    \/ Run
    \/ HookReturns
    \/ RoutesReturns
    \/ RunRender
    \/ RunReturn

Spec == Init /\ [][Next]_vars

\* The same program with every listener call recorded.
InitListeners == InitWith(DefaultCfg, { "obs" }, Shared(MaxMsgsWide))

SpecListeners == InitListeners /\ [][Next]_vars

\* The program under every configuration of the sink and the window_events
\* function; with a window_events function there is the step of its return.
InitAnyCfg ==
    InitWith([ sink : BOOLEAN, window_events : BOOLEAN, routes : { TRUE } ],
             { }, Shared(MaxMsgsWide))

NextAnyCfg == Next \/ WindowEventsReturns

SpecAnyCfg == InitAnyCfg /\ [][NextAnyCfg]_vars

\* The start of run() on every mount point.
InitBootstrap == InitFrom(DefaultCfg, { }, DomChildren, Shared(MaxMsgs), 0)

NextBootstrap == Run

SpecBootstrap == InitBootstrap /\ [][NextBootstrap]_vars

\* The program with its scheduling.  The code is synchronous and waits for
\* nothing: a call the host makes runs until it returns or panics, so the
\* program is idle or halted again and again; and the host calls every frame
\* callback that stays requested, however often other events call into the
\* App in between.
RunsToCompletion == []<>( Idle \/ panicked # "no" )

InitLive == InitWith(DefaultCfg, { }, Shared(MaxMsgsWide))

SpecLive ==
    /\ InitLive /\ [][Next]_vars
    /\ RunsToCompletion
    /\ SF_vars(FrameCallback)

\* The same program with every effect numbered and every pop recorded; the
\* time the renders read plays no part in the order of a drain.
InitDrain == InitLate(DefaultCfg, { "fifo" }, Shared(MaxMsgs))

SpecDrain == InitDrain /\ [][Next]_vars

\* The same, for an app whose after-mount hook and routes may create more
\* than the rest of the application does.
InitNested ==
    InitLate(DefaultCfg, { "fifo" },
             [ startup |-> MaxStartup, later |-> MaxLater,
               total |-> MaxStartup + MaxLater ])

SpecNested == InitNested /\ [][Next]_vars

\* ================================================================== claims
\* The frames of run().
RunFrames == { "hook", "routes", "run_wev", "run", "run_ret" }

\* run() has returned (and the program has not panicked).
Started ==
    /\ ~init_cfg
    /\ panicked = "no"
    /\ \A k \in 1 .. Len(stack) : stack[k].kind \notin RunFrames


\* The update or sink function (or, without a sink function, the runtime in
\* its place) ends with directive d.
Asks(d) ==
    \/ ProcessQueueMessageWith(d)
    \/ ProcessQueueGlobalMessageWith(d)
    \/ UserFnReturnsWith(d)


\* A message (local or global) is processed and its directive is d: the
\* Model is there and no caller holds it, so the update / sink function runs.
Processed(d) ==
    /\ IsSome(model)
    /\ ~ModelBorrowedMut(St)
    /\ ~ModelBorrowed(St)
    /\ Asks(d)

\* Exactly the request the handle names is outstanding with the host.
OneFramePending ==
    /\ IsSome(scheduled_render_handle)
    /\ host.frames = { Unwrap(scheduled_render_handle) }

\* The view function on top of the stack is no longer running in the next
\* state, and the program has not panicked.
ViewLeaves ==
    /\ Running("view")
    /\ panicked' = "no"
    /\ Len(stack') < Len(stack) \/ stack'[Len(stack)].kind # "view"

\* The step completes a render: the tree that is stored shows the Model, and
\* the frame of the view function has become the render's callback loop.
Renders ==
    /\ hist'.renders = hist.renders + 1
    /\ model' = model
    /\ main_el_vdom' = Some(View(Unwrap(model)))
    /\ Len(stack') = Len(stack)
    /\ stack'[Len(stack)].kind \in { "cbs", "drain" }

\* C1 -- Render coalescing.  After startup, while the update / sink calls
\* since the latest frame callback asked for Render (at least one did) and
\* none asked for ForceRenderNow, no render has happened and exactly one frame
\* request is outstanding.  The frame callback that ends the interval takes
\* the handle and calls the view function on the Model with every message
\* taken from a queue applied; no other render happens while the view
\* function runs, and when it returns (it may panic the program instead, by
\* dispatching a message) the one render of the interval is done and shows
\* that Model.
C1_Coalesced ==
    ( Started /\ hist.iv.upd >= 1 /\ ~hist.iv.force )
      => ( hist.iv.renders = 0 /\ OneFramePending )

C1_FrameCallbackRenders ==
    /\ ( Started /\ FrameCallback )
         => /\ panicked' = "no"
            /\ scheduled_render_handle' = None
            /\ host'.frames = { }
            /\ Len(stack') = 1
            /\ stack'[1].kind = "view"
            /\ hist'.renders = hist.renders
            /\ model' = Some(hist.popped)
    /\ ( stack # << >> /\ stack[1].kind = "view" /\ panicked' = "no" )
         => IF Len(stack) = 1 /\ ViewLeaves
            THEN /\ Renders
                 /\ main_el_vdom' = Some(View(hist.popped))
            ELSE /\ stack'[1] = stack[1]
                 /\ hist'.renders = hist.renders

C1_RenderCoalescing == [][ C1_Coalesced' /\ C1_FrameCallbackRenders ]_vars

\* Three updates asked for Render after startup; the frame callback has
\* rendered, for the second time since the program began, and the tree shows
\* the Model with the three updates.
C1_Witness ==
    /\ Started
    /\ stack = << DrainFrame(<< >>) >>
    /\ hist.popped = 3
    /\ hist.created = [ startup |-> 0, later |-> 3 ]
    /\ hist.iv = [ upd |-> 0, force |-> FALSE, renders |-> 0 ]
    /\ hist.renders = 2
    /\ model = Some(3)
    /\ main_el_vdom = Some(View(3))
    /\ scheduled_render_handle = None
    /\ host.frames = { }


\* C2 -- ForceRenderNow.  Processing a message (local or global) whose
\* directive is ForceRenderNow clears the scheduled render -- the handle is
\* empty and the request it named is no longer outstanding, so its frame
\* callback cannot fire -- and calls rerender_vdom while the dispatching call
\* is on the stack: the view function is called in that very step; unless
\* it panics the program, the render is done when it returns, and
\* process_queue_message returns only after a render that began after it was
\* called.
C2_ForceRenderNow ==
    [][ /\ Processed("ForceRenderNow")
          => /\ panicked' = "no"
             /\ scheduled_render_handle' = None
             /\ host'.frames = { }
             /\ ( IsSome(scheduled_render_handle)
                    => Unwrap(scheduled_render_handle) \notin host'.frames )
             /\ Len(stack') = Len(stack) + 1
             /\ stack'[Len(stack)].kind = "ret"
             /\ stack'[Len(stack)].seq = hist.renders
             /\ stack'[Len(stack')].kind = "view"
             /\ hist'.renders = hist.renders
        /\ ( ViewLeaves /\ Len(stack) >= 2
                        /\ stack[Len(stack) - 1].kind = "ret" )
          => Renders
        /\ \A k \in 1 .. Len(stack) - 1 :
             ( stack[k].kind = "ret" /\ panicked' = "no" )
               => /\ Len(stack') >= k
                  /\ stack'[k] = stack[k]
        /\ ReturnAfterRender
          => /\ hist.renders > Top(St).seq
             /\ scheduled_render_handle' = scheduled_render_handle
      ]_vars

\* A ForceRenderNow was processed after a Render had been asked for in the
\* same frame interval: its render is done, process_queue_message is about
\* to return and nothing is scheduled.
C2_Witness ==
    /\ Started
    /\ Running("ret")
    /\ hist.renders = Top(St).seq + 1
    /\ hist.iv.upd >= 1 /\ hist.iv.force /\ hist.iv.renders = 1
    /\ main_el_vdom = Some(View(Unwrap(model)))
    /\ scheduled_render_handle = None
    /\ host.frames = { }

\* C3 -- Skip.  Processing a message whose directive is Skip neither renders
\* nor touches the scheduled-render handle or the host's requests, and keeps
\* the update function's mutation; the Model never goes back, and every
\* render shows the Model as it is then.
C3_Skip ==
    [][ /\ Processed("Skip")
          => /\ panicked' = "no"
             /\ hist'.renders = hist.renders
             /\ main_el_vdom' = main_el_vdom
             /\ scheduled_render_handle' = scheduled_render_handle
             /\ host'.frames = host.frames
             /\ model' = Some(Unwrap(model) + 1)
        /\ IsSome(model)
          => IsSome(model') /\ Unwrap(model') >= Unwrap(model)
        /\ hist'.renders # hist.renders
          => main_el_vdom' = Some(View(Unwrap(model')))
      ]_vars

\* After startup one message was processed with Skip: the Model moved on, the
\* tree still shows the old Model and no render is scheduled.
C3_Witness ==
    /\ Started /\ Idle
    /\ model = Some(1)
    /\ main_el_vdom = Some(View(0))
    /\ hist.renders = 1
    /\ hist.iv = [ upd |-> 0, force |-> FALSE, renders |-> 0 ]
    /\ scheduled_render_handle = None
    /\ host.frames = { }

\* C9 -- Single scheduled render.  At most one frame request is outstanding,
\* and it is the one the handle names; schedule_render changes nothing while
\* the handle is set; the handle is cleared only by the frame callback or by
\* the cancel_scheduled_render of a ForceRenderNow.
C9_SingleScheduledRender ==
    [][ /\ Cardinality(host'.frames) <= 1
        /\ IF IsSome(scheduled_render_handle')
           THEN host'.frames = { Unwrap(scheduled_render_handle') }
           ELSE host'.frames = { }
        /\ ( IsSome(scheduled_render_handle) /\ Asks("Render") )
          => /\ scheduled_render_handle' = scheduled_render_handle
             /\ host'.frames = host.frames
        /\ ( /\ IsSome(scheduled_render_handle)
             /\ scheduled_render_handle' # scheduled_render_handle )
          => /\ scheduled_render_handle' = None
             /\ FrameCallback \/ Processed("ForceRenderNow")
      ]_vars

\* schedule_render was called twice while one request stayed outstanding.
C9_Witness ==
    /\ Started
    /\ hist.iv.upd >= 2
    /\ OneFramePending


\* C5 -- Command exactly-once.  Every command taken from a queue is either
\* still with the host (its NextTick or its future has not resolved) or its
\* result was dispatched exactly once, a Command's through update() and a
\* GlobalCommand's through sink(), whether the future gave Ok or Err.
C5_CommandExactlyOnce ==
    /\ \A task \in host.tasks :
         /\ task.id \in 1 .. Len(hist.cmdRuns)
         /\ task.global = hist.cmdRuns[task.id].global
    /\ \A id \in 1 .. Len(hist.cmdRuns) :
         LET c == hist.cmdRuns[id]
             waiting == { task \in host.tasks : task.id = id }
         IN  /\ c.runs + Cardinality(waiting) = 1
             /\ c.runs = 1
                  => c.via = ( IF c.global THEN "sink" ELSE "update" )

\* A GlobalCommand's result was dispatched once through sink(), and the
\* update() call that dispatches the Err result of a Command has just begun.
C5_Witness ==
    /\ stack = << DrainFrame(<< Msg("cmd_err") >>) >>
    /\ \E i, j \in 1 .. Len(hist.cmdRuns) :
          /\ hist.cmdRuns[i] =
                 [ global |-> FALSE, runs |-> 1, via |-> "update" ]
          /\ hist.cmdRuns[j] = [ global |-> TRUE, runs |-> 1, via |-> "sink" ]

\* The callbacks the renders under way have taken and not yet called to the
\* end, innermost render last.
CallbacksTaken ==
    LET RECURSIVE upto(_)
        upto(k) == IF k = 0 THEN << >> ELSE upto(k - 1) \o stack[k].rest
    IN  upto(Len(stack))

\* Callbacks are numbered as they are registered.  Each is in one place: it
\* has been invoked, it is with the render that took it, or it waits for the
\* next render -- none is invoked twice and none is lost (until a panic halts
\* the program); the callbacks of one render, and the waiting ones, are in
\* registration order.
CallbacksAccountedFor ==
    LET all == hist.invoked \o CallbacksTaken \o after_next_render_callbacks
        Ascending(q) == \A i, j \in 1 .. Len(q) : i < j => q[i] < q[j]
    IN  panicked = "no"
          => /\ Len(all) = hist.nextCb - 1
             /\ { all[i] : i \in 1 .. Len(all) } = 1 .. hist.nextCb - 1
             /\ Ascending(after_next_render_callbacks)
             /\ \A k \in 1 .. Len(stack) : Ascending(stack[k].rest)

\* C6 -- Post-render callbacks.  A render takes every callback registered
\* before it (those of the update call that forces it included) and leaves the
\* callback queue empty; it calls them, each once, in registration order,
\* after it has stored the new baseline tree and timestamp, and collects one
\* message from each; no other step invokes a callback, so none is invoked
\* again by the next render.
C6_PostRenderCallbacks ==
    [][ /\ hist'.renders = hist.renders + 1
          => LET f == stack'[Len(stack')]
                 registered ==
                     [ i \in 1 .. hist'.nextCb - hist.nextCb |->
                         hist.nextCb + i - 1 ]
             IN  /\ main_el_vdom' = Some(View(Unwrap(model')))
                 /\ render_timestamp' = Some(host'.clock)
                 /\ after_next_render_callbacks' = << >>
                 /\ hist'.invoked = hist.invoked
                 /\ f.queue = << >>
                 /\ f.rest = after_next_render_callbacks \o registered
                 /\ f.kind = ( IF f.rest = << >> THEN "drain" ELSE "cbs" )
        /\ hist'.invoked # hist.invoked
          => LET f == stack[Len(stack)]
                 g == stack'[Len(stack)]
             IN  /\ Running("cbs")
                 /\ hist'.invoked = Append(hist.invoked, Head(f.rest))
                 /\ hist'.renders = hist.renders
                 /\ main_el_vdom' = main_el_vdom
                 /\ render_timestamp' = render_timestamp
                 /\ Len(stack') = Len(stack)
                 /\ Len(g.queue) = Len(f.queue) + 1
                 /\ g.queue[Len(g.queue)].t = "Msg"
                 /\ g.queue[Len(g.queue)].src = "cb"
                 /\ g.rest = ( IF g.kind = "cbs" THEN Tail(f.rest) ELSE << >> )
                 /\ g.kind = ( IF Tail(f.rest) = << >> THEN "drain" ELSE "cbs" )
        /\ CallbacksAccountedFor'
      ]_vars

\* Two renders have invoked callbacks 1 and 2, and a third callback waits for
\* the next render.
C6_Witness ==
    /\ hist.renders >= 2
    /\ hist.invoked = << 1, 2 >>
    /\ after_next_render_callbacks = << 3 >>

\* C7 (as stated) -- without a sink function, sink(g) after startup changes
\* neither the Model nor the rendering state: no render, none scheduled.
C7_NoSinkNoRenderScheduled ==
    [][ ( Started /\ ~cfg.sink /\ ProcessQueueGlobalMessage )
          => /\ panicked' = "no"
             /\ model' = model
             /\ hist'.renders = hist.renders
             /\ scheduled_render_handle' = scheduled_render_handle
             /\ host'.frames = host.frames
      ]_vars

\* C8 -- Render timestamp delta.  The stored timestamp never decreases.  A
\* render stores the clock it read; its callbacks are given no delta when no
\* timestamp was stored before, and otherwise the new timestamp minus the one
\* the preceding render stored, which is not negative.
C8_RenderTimestampDelta ==
    [][ /\ IsSome(render_timestamp)
          => /\ IsSome(render_timestamp')
             /\ Unwrap(render_timestamp') >= Unwrap(render_timestamp)
        /\ hist'.renders = hist.renders + 1
          => LET f == stack'[Len(stack')]
                 delta == IF IsSome(render_timestamp)
                          THEN Some(Unwrap(render_timestamp')
                                      - Unwrap(render_timestamp))
                          ELSE None
             IN  /\ render_timestamp' = Some(host'.clock)
                 /\ host'.clock >= host.clock
                 /\ IsSome(delta) => Unwrap(delta) >= 0
                 /\ f.kind = "cbs" => f.delta = delta
        /\ hist'.invoked # hist.invoked
          => LET f == stack[Len(stack)]
                 g == stack'[Len(stack)]
             IN  g.queue[Len(g.queue)].delta = f.delta
      ]_vars

\* A render after the first one has just given its callback a delta of 1.
C8_Witness ==
    /\ hist.renders >= 2
    /\ Running("drain")
    /\ Top(St).queue # << >>
    /\ Head(Top(St).queue) = Effect("Msg", "cb", Some(1))

\* C10 (as stated) -- processing a message while the Model is absent panics:
\* the update / sink function is not run and nothing is rendered or
\* scheduled.
C10_DispatchBeforeBootstrapIsFatal ==
    [][ ( ~IsSome(model) /\ ( ProcessQueueMessage \/ ProcessQueueGlobalMessage ) )
          => /\ panicked' # "no"
             /\ hist'.updCalls = hist.updCalls
             /\ hist'.renders = hist.renders
             /\ host'.frames = host.frames
      ]_vars

\* ---- listeners (checked with the listener calls recorded) ----
\* The dispatches whose listener loop has not yet reached listener l.
NotYetSeen(l) ==
    { stack[k].seq :
        k \in { k \in 1 .. Len(stack) :
                 \/ stack[k].kind = "pqm" /\ stack[k].li <= l
                 \/ stack[k].kind = "lis" /\ stack[k].li < l } }

\* Listener l was called exactly once with every message dispatched since it
\* was registered.
ObservedExactlyOnce(l) ==
    LET o == hist.obs[l]
    IN  /\ { o[i] : i \in 1 .. Len(o) }
             = ( hist.regAt[l] + 1 .. hist.nDispatch ) \ NotYetSeen(l)
        /\ \A i, j \in 1 .. Len(o) : i # j => o[i] # o[j]

\* Listener l was called in dispatch order.
ObservedInDispatchOrder(l) ==
    LET o == hist.obs[l]
    IN  \A i, j \in 1 .. Len(o) : i < j => o[i] < o[j]

\* C4 (as stated) -- every dispatched local message is passed to every
\* registered listener exactly once, and every listener sees the messages in
\* dispatch order, also when a listener re-enters update().
C4_ListenerDelivery ==
    panicked = "no"
      => \A l \in 1 .. msg_listeners :
           ObservedExactlyOnce(l) /\ ObservedInDispatchOrder(l)

\* ---- drains (checked with the effects numbered and the pops recorded) ----
IsPrefix(a, b) == Len(a) <= Len(b) /\ a = SubSeq(b, 1, Len(a))

\* The frames that hold effects: a drain's queue, the messages a render has
\* collected from its callbacks, the orders.effects a ForceRenderNow call
\* will return once its render is over, or that process_queue_message /
\* run() holds while routes or window_events runs.
Holders == { "drain", "cbs", "ret", "pq_wev", "routes", "run_wev" }

\* The effects frame k still holds.
Waiting(k) ==
    IF stack[k].kind \in Holders THEN stack[k].queue ELSE << >>

RECURSIVE WaitingIn(_)
\* The numbers of the effects that wait in the frames of a stack.
WaitingIn(frames) ==
    IF frames = << >> THEN << >>
    ELSE LET f == Head(frames)
             q == IF f.kind \in Holders THEN f.queue ELSE << >>
         IN  [ i \in 1 .. Len(q) |-> q[i].n ] \o WaitingIn(Tail(frames))

\* Every effect created so far was popped once or waits once, never both:
\* the popped and the waiting numbers together are 1 .. hist.enq, each once.
EachEffectOnce ==
    panicked = "no"
      => LET all == hist.taken \o WaitingIn(stack)
         IN  /\ Len(all) = hist.enq
             /\ \A n \in 1 .. hist.enq : \E i \in 1 .. Len(all) : all[i] = n

\* A listener or a post-render callback that runs inside a drain calls
\* update(), sink() or process_cmd_and_msg_queue(): the call is on the stack
\* in the next state.
\* A listener or a post-render callback that runs inside a drain calls
\* update(), sink() or process_cmd_and_msg_queue().
NestedDispatch ==
    /\ InListener \/ InCallback
    /\ CallUpdate \/ CallSink \/ CallProcessCmdAndMsgQueue

\* No frame on the stack holds the Model: no update or sink function that
\* has called into the App, no view and no window_events function.
ModelFree ==
    \A k \in 1 .. Len(stack) :
        stack[k].kind \notin { "upd", "view", "pq_wev", "run_wev", "swl" }

\* C11 -- Reentrant dispatch.  update() (or sink()) called by a listener or
\* a post-render callback inside an active drain gets a queue of its own that
\* holds just the caller's message, and the caller's frame stays as it is;
\* while the Model is present and no user function that holds it (an update,
\* sink, view or window_events function) is on the stack, no dispatch panics
\* (registering a listener while the listeners are being called and run()
\* called again do, which are no dispatches) and no frame of the callers
\* changes; a drain's frame leaves the stack only when its queue is empty;
\* when a call returns, the queue of its caller still starts with what it
\* held; and every effect is popped exactly once.
C11_ReentrantDispatch ==
    /\ []EachEffectOnce
    /\ [][ /\ NestedDispatch
             => LET f == stack'[Len(stack')]
                IN  /\ panicked' = "no"
                    /\ Len(stack') = Len(stack) + 1
                    /\ f.kind = "drain"
                    /\ Len(f.queue) \in 1 .. 2
                    /\ \A i \in 1 .. Len(f.queue) :
                          /\ f.queue[i].src = "user"
                          /\ f.queue[i].n = hist.enq + i
                    /\ hist'.enq = hist.enq + Len(f.queue)
                    /\ stack'[Len(stack)] =
                          [ stack[Len(stack)] EXCEPT
                              !.kind = IF @ = "pqm" THEN "lis" ELSE @ ]
           /\ ( IsSome(model) /\ stack # << >> /\ ModelFree )
             => panicked' \in { "no", "msg_listeners already borrowed",
                                "init_cfg should be set" }
           /\ panicked' = "no"
             => /\ \A k \in 1 .. Len(stack) - 1 :
                     /\ k <= Len(stack')
                     /\ stack'[k].kind = stack[k].kind
                     /\ IsPrefix(stack[k].queue, stack'[k].queue)
                     /\ k < Len(stack') => stack'[k] = stack[k]
                /\ ( Len(stack') < Len(stack) /\ Top(St).kind = "drain" )
                     => Top(St).queue = << >>
         ]_vars

\* A listener called update() while it observed a message: the nested call
\* has popped and processed its message and returned, and the outer
\* process_queue_message, its listener loop over, is about to run the update
\* function on its own message.
C11_Witness ==
    /\ Started
    /\ Len(stack) = 2
    /\ Running("pqm")
    /\ Top(St).li > msg_listeners
    /\ msg_listeners >= 1
    /\ hist.enq >= 2
    /\ Len(hist.taken) = hist.enq
    /\ hist.taken[Len(hist.taken)] > Top(St).queue[1].n
    /\ stack[1].queue = << >>

\* ---- startup ----
\* run() is about to call rerender_vdom for its final render.
AtRunRender == Running("run")

\* C12 -- Startup render.  When the startup drain has returned, whatever it
\* rendered, scheduled or skipped, run() calls rerender_vdom: Model and
\* baseline tree are present and the view function is called; unless it
\* panics the program, the render is done when it returns; run() returns
\* only after a render that began after the drain, so once run() has
\* returned at least one render has occurred.
C12_StartupRender ==
    [][ /\ ( Running("drain") /\ Len(stack) >= 2 /\ panicked' = "no"
                /\ stack[Len(stack) - 1].kind = "run"
                /\ Len(stack') < Len(stack) )
          => AtRunRender'
        /\ AtRunRender
          => /\ RunRender
             /\ IsSome(model) /\ IsSome(main_el_vdom)
             /\ panicked' = "no"
             /\ Len(stack') = Len(stack) + 1
             /\ stack'[Len(stack)].kind = "run_ret"
             /\ stack'[Len(stack)].seq = hist.renders
             /\ stack'[Len(stack')].kind = "view"
        /\ ( ViewLeaves /\ Len(stack) >= 2
                        /\ stack[Len(stack) - 1].kind = "run_ret" )
          => Renders
        /\ \A k \in 1 .. Len(stack) - 1 :
             ( stack[k].kind \in { "run", "run_ret" } /\ panicked' = "no" )
               => /\ Len(stack') >= k
                  /\ stack'[k] = stack[k]
        /\ RunReturn
          => /\ hist.renders > Top(St).seq
             /\ main_el_vdom' = main_el_vdom
        /\ Started' => hist'.renders >= 1 /\ IsSome(render_timestamp')
      ]_vars

\* The startup drain forced a render and scheduled another one, and run()
\* has rendered all the same: it is about to return.
C12_Witness ==
    /\ Running("run_ret")
    /\ hist.renders = Top(St).seq + 1
    /\ hist.renders >= 2
    /\ hist.iv.force /\ hist.iv.upd >= 1
    /\ OneFramePending

\* ---- bootstrap (checked on every mount point) ----
\* The children of a mount point that are no text nodes of white space only.
Authored(children) == SelectSeq(children, LAMBDA c : c.kind # "ws")

\* The host nodes of a child list.
HostNodes(children) == { children[i].id : i \in 1 .. Len(children) }

\* The baseline tree has a child for every authored child the mount point
\* had, read from it, in document order.
MirrorsAuthored(baseline, children) ==
    /\ Len(baseline) = Len(Authored(children))
    /\ \A i \in 1 .. Len(baseline) :
         /\ baseline[i].of = Authored(children)[i]
         /\ baseline[i].kind = IF baseline[i].of.kind = "el"
                               THEN "Element" ELSE "Text"

C14_AppendBootstrap ==
    [][ RunWith("Append")
          => /\ main_el_vdom' = Some(<< >>)
             /\ mount_point' = mount_point
      ]_vars

\* Append ran on a mount point with an element and a white-space text node:
\* both are still there and the baseline tree is empty.
C14_Witness ==
    /\ ~init_cfg
    /\ main_el_vdom = Some(<< >>)
    /\ mount_point = << DomNode(1, "el"), DomNode(2, "ws") >>

\* ---- the order of a drain ----
\* The numbers of a queue grow from front to back.
InCreationOrder(queue) ==
    \A i, j \in 1 .. Len(queue) : i < j => queue[i].n < queue[j].n

\* A drain is about to pop the front of its queue.
Pops == Running("drain") /\ Top(St).queue # << >>

\* process_queue_message / process_queue_global_message (or the
\* ForceRenderNow branch, after its render) is about to hand back
\* orders.effects.
Returns ==
    Running("pqm") \/ Running("pqgm") \/ Running("upd") \/ Running("ret")

\* C15 -- FIFO breadth-first drain.  Every queue holds its effects in the
\* order they were created.  A drain pops the front effect, which is older
\* than all the others it holds, and keeps the rest; the effects a processed
\* message produced are appended behind what the queue holds, in the order
\* the update function created them; and when all calls have returned every
\* effect created was popped exactly once.
C15_FifoDrain ==
    [][ /\ \A k \in 1 .. Len(stack') : InCreationOrder(stack'[k].queue)
        /\ Pops
          => LET q == Top(St).queue
                 k == IF q[1].t \in { "Cmd", "GCmd" } THEN Len(stack)
                      ELSE Len(stack') - 1
             IN  /\ hist'.taken = Append(hist.taken, q[1].n)
                 /\ stack'[k].queue = Tail(q)
                 /\ \A i \in 2 .. Len(q) : q[1].n < q[i].n
        /\ ( Returns /\ panicked' = "no" /\ Len(stack') < Len(stack) )
          => LET old == stack[Len(stack) - 1].queue
                 new == stack'[Len(stack')].queue
             IN  /\ IsPrefix(old, new)
                 /\ \A i \in 1 .. Len(old), j \in Len(old) + 1 .. Len(new) :
                       old[i].n < new[j].n
        /\ ( stack' = << >> /\ panicked' = "no" )
          => /\ Len(hist'.taken) = hist'.enq
             /\ \A n \in 1 .. hist'.enq :
                   \E i \in 1 .. Len(hist'.taken) : hist'.taken[i] = n
      ]_vars

\* The startup drain has processed its first message; the routing message
\* that was queued with it waits in front of the effect the first message
\* produced.
C15_Witness ==
    /\ Running("drain")
    /\ Len(Top(St).queue) = 2
    /\ Top(St).queue[1].src = "route"
    /\ Top(St).queue[2].src = "effect"
    /\ Top(St).queue[1].n < Top(St).queue[2].n
    /\ hist.taken = << 1 >>

\* ---- command deferral ----
\* Frame k holds the result of a command as a message.
HoldsCmdResult(k) ==
    \E i \in 1 .. Len(stack[k].queue) :
        stack[k].queue[i].src \in { "cmd_ok", "cmd_err" }

\* C16 -- Command deferral.  Popping a Command / GlobalCommand hands one task
\* to the host behind a NextTick and does nothing else: no call is made, no
\* update function runs, the drain goes on with the rest of its queue.  A
\* future is spawned only by its NextTick and its result is dispatched only
\* by the host, both on an empty call stack, so the update() / sink() call
\* that carries a command's result is always the bottom of the stack.
C16_CommandDeferral ==
    [][ /\ ( DrainCmd \/ DrainGCmd )
          => /\ Len(stack') = Len(stack)
             /\ stack'[Len(stack)].queue = Tail(stack[Len(stack)].queue)
             /\ hist'.updCalls = hist.updCalls
             /\ model' = model
             /\ host.tasks \subseteq host'.tasks
             /\ Cardinality(host'.tasks \ host.tasks) = 1
             /\ \A task \in host'.tasks \ host.tasks : task.stage = "tick"
        /\ ( \E task \in host'.tasks \ host.tasks : task.stage = "spawned" )
          => TaskNextTick /\ stack = << >> /\ stack' = << >>
        /\ TaskResolve
          => /\ stack = << >>
             /\ Len(stack') = 1
             /\ HoldsCmdResult(1)'
             /\ \E task \in host.tasks \ host'.tasks : task.stage = "spawned"
        /\ \A k \in 1 .. Len(stack') :
             HoldsCmdResult(k)'
               => \/ k = 1 /\ stack'[k].kind = "drain"
                  \/ k = 2 /\ stack'[k].kind \in { "pqm", "lis", "pqgm", "upd" }
      ]_vars

\* A chain: the results of two commands were dispatched one after the other,
\* and the call that carries the second result is the only frame on the
\* stack.
C16_Witness ==
    /\ Started
    /\ Len(stack) = 1
    /\ HoldsCmdResult(1)
    /\ Len(hist.cmdRuns) = 2
    /\ hist.cmdRuns[1].runs = 1 /\ hist.cmdRuns[2].runs = 1
    /\ hist.updCalls >= 2
    /\ host.tasks = { }

\* ---- the baseline tree ----
\* C17 -- Baseline tree always repopulated.  From the moment run() has
\* stored the baseline tree the slot is never found empty: whenever the
\* program is between two steps the tree is there, every render finds it,
\* stores the new tree before the first of its callbacks is called, and no
\* run ends in the panic "missing main_el_vdom".
C17_BaselineRepopulated ==
    [][ /\ panicked' # "missing main_el_vdom"
        /\ ( ~init_cfg' /\ panicked' = "no" ) => IsSome(main_el_vdom')
        /\ hist'.renders = hist.renders + 1
          => /\ IsSome(main_el_vdom)
             /\ main_el_vdom' = Some(View(Unwrap(model')))
             /\ stack'[Len(stack')].kind \in { "cbs", "drain" }
             /\ hist'.invoked = hist.invoked
             /\ Len(stack') >= Len(stack)
        /\ Running("cbs") => IsSome(main_el_vdom)
      ]_vars

\* A render nested in the callback drain of another render, itself forced
\* inside a drain, has stored its tree.
C17_Witness ==
    /\ Started
    /\ Len(stack) = 5
    /\ stack[2].kind = "ret" /\ stack[4].kind = "ret"
    /\ stack[3].kind = "drain" /\ stack[5].kind \in { "cbs", "drain" }
    /\ hist.renders >= 3
    /\ main_el_vdom = Some(View(Unwrap(model)))

\* ---- exclusive access to the Model ----
\* C18 (as stated) -- a message dispatched by an update or sink function
\* that is still running, and so holds the Model mutably, is never
\* processed: the attempt panics and no update or sink function runs.
C18_ExclusiveAccessFailsFast ==
    [][ ( /\ ModelBorrowedMut(St)
          /\ ProcessQueueMessage \/ ProcessQueueGlobalMessage )
          => /\ panicked' # "no"
             /\ hist'.updCalls = hist.updCalls
      ]_vars

\* ---- no lost render ----
\* A render is owed: a frame is scheduled after startup.
RenderOwed ==
    /\ Started
    /\ IsSome(scheduled_render_handle)

\* The tree is the view of the Model as it is now.
UpToDate == IsSome(model) /\ main_el_vdom = Some(View(Unwrap(model)))

\* A message is processed and its directive is Render (hist.iv.upd counts
\* them), or is ForceRenderNow (hist.iv.force records it).
RenderDirective == hist'.iv.upd = hist.iv.upd + 1
ForceDirective == ~Idle /\ hist'.iv.force

\* C19 -- No lost render.  After startup a message processed with Render
\* leaves a frame requested; the handle is cleared only by the frame
\* callback of the request it names or by a ForceRenderNow, and in that very
\* step rerender_vdom is entered and the view function called, so the handle
\* is clear before the render and a Render processed in the render's
\* callback drain requests a fresh frame; the view function leaves the stack
\* only with the render done or with a panic, which halts the program; and,
\* the host calling every frame callback that stays requested, a scheduled
\* render is followed by a state whose tree shows the Model of that state,
\* which is the Model of the Render or a later one, or by a panic.
C19_NoLostRender ==
    /\ [][ /\ ( Started /\ RenderDirective ) => OneFramePending'
           /\ ( /\ IsSome(scheduled_render_handle)
                /\ scheduled_render_handle' # scheduled_render_handle )
             => /\ scheduled_render_handle' = None
                /\ panicked' = "no"
                /\ stack'[Len(stack')].kind = "view"
                /\ \/ FrameCallback
                         /\ host.frames = { Unwrap(scheduled_render_handle) }
                   \/ ForceDirective
           /\ FrameCallback
             => /\ scheduled_render_handle' = None
                /\ host'.frames = { }
                /\ stack'[Len(stack')].kind = "view"
           /\ ViewLeaves => Renders
         ]_vars
    /\ RenderOwed ~> ( UpToDate \/ panicked # "no" )

\* An update asked for Render and registered a callback; the frame callback
\* has rendered and called the callback, whose message was processed with
\* Render in the render's callback drain: a fresh frame is requested.
C19_Witness ==
    /\ Started
    /\ stack = << DrainFrame(<< >>) >>
    /\ hist.created = [ startup |-> 0, later |-> 2 ]
    /\ hist.popped = 2
    /\ hist.invoked = << 1 >>
    /\ hist.renders = 2
    /\ hist.iv = [ upd |-> 1, force |-> FALSE, renders |-> 0 ]
    /\ OneFramePending

\* ---- callback retention ----
RECURSIVE CountCb(_)
CountCb(q) ==
    IF q = << >> THEN 0
    ELSE ( IF Head(q).src = "cb" THEN 1 ELSE 0 ) + CountCb(Tail(q))

RECURSIVE CbMessages(_)
\* The messages of invoked callbacks that the frames of a stack still hold.
CbMessages(frames) ==
    IF frames = << >> THEN 0
    ELSE CountCb(Head(frames).queue) + CbMessages(Tail(frames))

\* The callbacks registered by the step, in the order of their registration.
Registered ==
    [ i \in 1 .. hist'.nextCb - hist.nextCb |-> hist.nextCb + i - 1 ]

\* b is what is left of a: a itself or a without its first entries.
IsSuffix(b, a) ==
    Len(b) <= Len(a) /\ b = SubSeq(a, Len(a) - Len(b) + 1, Len(a))

\* C20 -- Post-render callback retention.  A step that does not render
\* (an update that ends in Skip or Render, a drain step, a cancelled or a
\* requested frame, a callback that returns) drops no callback: the
\* callbacks it registers join the queue behind those that wait.  A step
\* that renders takes the waiting callbacks and those its own update
\* registered, and no others, and leaves the queue empty.  A callback is
\* invoked only by the render that took it; a render under way is never given
\* another callback, and no step adds the message of a callback it did not
\* invoke.  So a callback registered while the callbacks of a render run is
\* not invoked by that render and is taken by the next one.
C20_CallbackRetention ==
    [][ /\ IF hist'.renders = hist.renders
           THEN /\ after_next_render_callbacks'
                     = after_next_render_callbacks \o Registered
                /\ CbMessages(stack')
                     <= CbMessages(stack)
                          + Len(hist'.invoked) - Len(hist.invoked)
           ELSE /\ stack'[Len(stack')].rest
                     = after_next_render_callbacks \o Registered
                /\ after_next_render_callbacks' = << >>
                /\ hist'.invoked = hist.invoked
                /\ CbMessages(stack') <= CbMessages(stack)
        /\ hist'.invoked # hist.invoked
          => /\ Running("cbs")
             /\ hist'.invoked = Append(hist.invoked, Head(Top(St).rest))
        /\ \A k \in 1 .. Len(stack) :
             ( k <= Len(stack') /\ stack[k].kind = "cbs" )
               => IsSuffix(stack'[k].rest, stack[k].rest)
      ]_vars

\* The callback drain of a render is running (the message of an invoked
\* callback still waits in it) and a callback registered since the render
\* waits for the next one.
C20_Witness ==
    /\ panicked = "no"
    /\ \E k \in 1 .. Len(stack) :
         /\ stack[k].kind = "drain"
         /\ stack[k].queue # << >>
         /\ Head(stack[k].queue).src = "cb"
    /\ hist.invoked # << >>
    /\ after_next_render_callbacks # << >>
    /\ Head(after_next_render_callbacks) > hist.invoked[Len(hist.invoked)]

\* ---- nested drain under ForceRenderNow ----
\* The numbers of a queue's effects.
NumbersOf(queue) == { queue[i].n : i \in 1 .. Len(queue) }

\* The numbers of the effects popped so far.
TakenSoFar == { hist.taken[i] : i \in 1 .. Len(hist.taken) }

\* C21 -- Nested drain order under ForceRenderNow.  Processing a message
\* with ForceRenderNow leaves the queue of its caller as it is, holds back
\* the effects the message enqueued, and renders; the render calls its
\* callbacks, whose messages, younger than the effects held back, get a
\* nested drain.  While the render and that nested drain run, the effects
\* held back and the queues of all callers stay as they are, so none of them
\* is popped.  The effects held back join the caller's queue, behind what it
\* holds, only when the nested drain is over: every effect created since
\* then, the callbacks' messages and what they produced, has been popped.
C21_NestedDrainOrder ==
    [][ panicked' = "no"
          => /\ Processed("ForceRenderNow")
                  => LET k == Len(stack)
                         held == stack'[k]
                     IN  /\ Len(stack') = k + 1
                         /\ SubSeq(stack', 1, k - 1) = SubSeq(stack, 1, k - 1)
                         /\ held.kind = "ret"
                         /\ NumbersOf(held.queue)
                              = hist.enq + 1 .. hist.enq + Len(held.queue)
                         /\ stack'[k + 1].kind = "view"
             /\ ( ViewLeaves /\ Len(stack) >= 2
                             /\ stack[Len(stack) - 1].kind = "ret" )
                  => LET nested == stack'[Len(stack)]
                     IN  /\ Renders
                         /\ nested.queue = << >>
                         /\ nested.rest = after_next_render_callbacks
             /\ ( /\ hist'.invoked # hist.invoked
                  /\ Len(stack) >= 2
                  /\ stack[Len(stack) - 1].kind = "ret" )
                  => LET held == stack[Len(stack) - 1]
                         nested == stack'[Len(stack)]
                         message == nested.queue[Len(nested.queue)]
                     IN  /\ message.src = "cb"
                         /\ nested.kind \in { "cbs", "drain" }
                         /\ \A n \in NumbersOf(held.queue) : n < message.n
             /\ \A k \in 1 .. Len(stack) - 1 :
                  stack[k].kind = "ret"
                    => /\ SubSeq(stack', 1, k) = SubSeq(stack, 1, k)
                       /\ \A j \in 1 .. k :
                            NumbersOf(Waiting(j)) \cap TakenSoFar' = { }
             /\ Running("ret")
                  => LET k == Len(stack)
                     IN  /\ Len(stack') = k - 1
                         /\ stack'[k - 1].kind = "drain"
                         /\ stack'[k - 1].queue
                              = stack[k - 1].queue \o stack[k].queue
                         /\ SubSeq(stack', 1, k - 2) = SubSeq(stack, 1, k - 2)
                         /\ \A n \in 1 .. hist.enq :
                              \/ n \in TakenSoFar
                              \/ \E j \in 1 .. k : n \in NumbersOf(Waiting(j))
      ]_vars

\* The startup drain held the message the after-mount hook left and, behind
\* it, the routing message.  The first was processed with ForceRenderNow and
\* left an effect of its own; the render called the callback the hook had
\* registered, and the nested drain has popped the callback's message and is
\* over: the routing message still waits in the startup drain and the effect
\* of the ForceRenderNow message is still held back, both older than the
\* callback's message.
C21_Witness ==
    /\ Running("ret")
    /\ Top(St).queue # << >>
    /\ stack[Len(stack) - 1].kind = "drain"
    /\ stack[Len(stack) - 1].queue # << >>
    /\ stack[Len(stack) - 1].queue[1].src = "route"
    /\ hist.invoked = << 1 >>
    /\ hist.created = [ startup |-> 3, later |-> 1 ]
    /\ \E m \in TakenSoFar :
         /\ \A n \in NumbersOf(Top(St).queue) : n < m
         /\ \A n \in NumbersOf(stack[Len(stack) - 1].queue) : n < m

====
